---------------------------- MODULE Spec2Model ----------------------------
(***************************************************************************)
(* Model of bioencoder/core/losses.py: the phylogenetic supervised         *)
(* contrastive loss (SupConLoss) and the label smoothing loss              *)
(* (LabelSmoothingLoss).                                                   *)
(*                                                                         *)
(* Conventions.                                                            *)
(*  - Python indices start at 0, sequences here at 1: index k of the model *)
(*    is index k-1 of the program.                                         *)
(*  - Taxon labels are the numbers 1, 2, 3, 4 standing for "A", "B", "C",  *)
(*    "D"; sorted() on labels is the numeric order.                        *)
(*  - A non-negative real x held in a tensor (a correlation, a mask        *)
(*    entry) is modelled exactly, by its square as a reduced fraction      *)
(*    <<p, q>> (x*x = p/q, gcd(p, q) = 1): 0.0 is <<0, 1>>, 1.0 is         *)
(*    <<1, 1>>, and d / sqrt(a*b) is the reduction of <<d*d, a*b>>.        *)
(*    Rounding of the float32 store is not modelled.                       *)
(***************************************************************************)
EXTENDS Integers, Sequences, FiniteSets, TLC

VARIABLES
    tree,       \* the constructor's input: the tree at tree_path, or NoTree
    self,       \* the SupConLoss instance, NoInstance before/without construction
    init_err,   \* outcome of SupConLoss.__init__: "none" (not run), "ok" or the error raised
    args,       \* the caller's tensors of the forward call: features, labels, mask
    out,        \* outcome of the last forward call
    ls,         \* the LabelSmoothingLoss instance
    ls_args,    \* the caller's pred and target of LabelSmoothingLoss.forward
    ls_out      \* outcome of the last LabelSmoothingLoss.forward call

vars == <<tree, self, init_err, args, out, ls, ls_args, ls_out>>

(***************************************************************************)
(* Bounds of the model.                                                    *)
(***************************************************************************)
MaxNodes == 4      \* nodes of an enumerated tree
MaxLen == 1        \* largest branch length of an enumerated tree
NumLabels == 3     \* taxon labels the leaves of an enumerated tree draw from

(***************************************************************************)
(* Exact non-negative reals (see the conventions above).                   *)
(***************************************************************************)
RECURSIVE GCD(_, _)
GCD(a, b) == IF b = 0 THEN a ELSE GCD(b, a % b)

Zero == <<0, 1>>
One == <<1, 1>>

\* x*x = p/q in lowest terms
Reduce(p, q) == LET g == GCD(p, q) IN <<p \div g, q \div g>>

IsPos(x) == x[1] > 0
LeqOne(x) == x[1] <= x[2]
Times(x, y) == Reduce(x[1] * y[1], x[2] * y[2])

(***************************************************************************)
(* The tree library (dendropy) as the constructor uses it.  A tree is a    *)
(* record [n, parent, len, label]: nodes 1..n numbered in preorder, node 1 *)
(* the seed node (root), parent[k] < k, len[k] the length of the edge      *)
(* above k, label[k] the taxon label of leaf k (0 on internal nodes).      *)
(***************************************************************************)
NoTree == [n |-> 0]

Nodes(t) == 1..t.n

children(t, k) == {c \in Nodes(t) : c > 1 /\ t.parent[c] = k}

\* tree.leaf_node_iter(): the leaves, in preorder
leaf_nodes(t) == {k \in Nodes(t) : children(t, k) = {}}

RECURSIVE distance_from_root(_, _)
distance_from_root(t, k) ==
    IF k = 1 THEN 0 ELSE t.len[k] + distance_from_root(t, t.parent[k])

RECURSIVE ancestors(_, _)
\* k and every node above it
ancestors(t, k) == IF k = 1 THEN {1} ELSE {k} \cup ancestors(t, t.parent[k])

\* tree.mrca(taxon_labels=ls): the deepest node above every leaf that bears
\* one of the labels; 0 (None) when there is none
mrca(t, lbls) ==
    LET lv == {k \in leaf_nodes(t) : t.label[k] \in lbls}
        common == {a \in Nodes(t) : \A k \in lv : a \in ancestors(t, k)}
    IN IF lv = {} \/ common = {} THEN 0
       ELSE CHOOSE a \in common : \A b \in common : b \in ancestors(t, a)


(***************************************************************************)
(* SupConLoss.__init__                                                     *)
(***************************************************************************)
DefaultTemperature == 7    \* temperature=0.07 and base_temperature=0.07, in hundredths

NoInstance == [constructed |-> FALSE]

\* sorted(list(S)) for a set S of labels
RECURSIVE Sorted(_)
Sorted(S) ==
    IF S = {} THEN <<>>
    ELSE LET m == CHOOSE x \in S : \A y \in S : x <= y
         IN <<m>> \o Sorted(S \ {m})

\* the dict comprehension {leaf.taxon.label: leaf.distance_from_root() for leaf in
\* tree.leaf_node_iter()}: one key per label, a later leaf overwriting an earlier one
tip_depths(t) ==
    LET keys == {t.label[k] : k \in leaf_nodes(t)}
        last(l) == CHOOSE k \in leaf_nodes(t) :
                      /\ t.label[k] = l
                      /\ \A k2 \in leaf_nodes(t) : t.label[k2] = l => k2 <= k
    IN [l \in keys |-> distance_from_root(t, last(l))]

\* torch.eye(n)
eye(n) == [i \in 1..n |-> [j \in 1..n |-> IF i = j THEN One ELSE Zero]]

\* list(combinations_with_replacement(range(n), 2)), in the order itertools yields
RECURSIVE CombosFrom(_, _, _)
CombosFrom(i, j, n) ==
    IF i > n THEN <<>>
    ELSE IF j > n THEN CombosFrom(i + 1, i + 1, n)
    ELSE <<(<<i, j>>)>> \o CombosFrom(i, j + 1, n)

combinations_with_replacement(n) == CombosFrom(1, 1, n)

\* m[i, j] = m[j, i] = v, without the mirrored store
SetPairNoMirror(m, i, j, v) == [m EXCEPT ![i][j] = v]

\* m[i, j] = m[j, i] = v
SetPair(m, i, j, v) == [m EXCEPT ![i][j] = v, ![j][i] = v]

\* bm_var / math.sqrt(t1 * t1): the first tip's depth used twice
BrownianCorrSameTip(bm_var, t1_bm_var, t2_bm_var) ==
    Reduce(bm_var * bm_var, t1_bm_var * t1_bm_var)

\* bm_var / math.sqrt(t1_bm_var * t2_bm_var), for t1_bm_var * t2_bm_var > 0
BrownianCorr(bm_var, t1_bm_var, t2_bm_var) ==
    Reduce(bm_var * bm_var, t1_bm_var * t2_bm_var)

\* One pass of the loop body for the pair (i, j); st = [err, bm_corr].
CorrStep(t, tips, depths, st, i, j) ==
    IF i = j THEN st
    ELSE IF tips[i] = tips[j]
    THEN [st EXCEPT !.err = "NameError"]   \* the message reads tips[i], an unbound name
    ELSE LET anc == mrca(t, {tips[i], tips[j]})
         IN IF anc = 0 THEN [st EXCEPT !.err = "NoCommonAncestorError"]
            ELSE IF anc = 1 THEN [st EXCEPT !.bm_corr = SetPair(st.bm_corr, i, j, Zero)]
            ELSE LET bm_var == distance_from_root(t, anc)
                     t1_bm_var == depths[tips[i]]
                     t2_bm_var == depths[tips[j]]
                 IN IF t1_bm_var * t2_bm_var = 0
                    THEN [st EXCEPT !.err = "ZeroDivisionError"]
                    ELSE [st EXCEPT !.bm_corr =
                            SetPair(st.bm_corr, i, j,
                                    BrownianCorr(bm_var, t1_bm_var, t2_bm_var))]

RECURSIVE CorrLoop(_, _, _, _, _)
\* the for loop: the pairs in order, stopping at the first raise
CorrLoop(t, tips, depths, st, pairs) ==
    IF pairs = <<>> \/ st.err # "ok" THEN st
    ELSE CorrLoop(t, tips, depths,
                  CorrStep(t, tips, depths, st, Head(pairs)[1], Head(pairs)[2]),
                  Tail(pairs))

\* SupConLoss(temperature, contrast_mode, base_temperature, tree_path): the outcome
\* [err, inst]; inst is the instance when err = "ok"
SupConLoss_init(temperature, contrast_mode, base_temperature, t) ==
    LET base == [constructed |-> TRUE,
                 temperature |-> temperature,
                 contrast_mode |-> contrast_mode,
                 base_temperature |-> base_temperature,
                 has_tree |-> t # NoTree,
                 tips |-> <<>>,
                 bm_corr |-> <<>>]
    IN IF t = NoTree THEN [err |-> "ok", inst |-> base]
       ELSE LET depths == tip_depths(t)
                tips == Sorted(DOMAIN depths)
                n_tips == Len(tips)
                st == CorrLoop(t, tips, depths,
                               [err |-> "ok", bm_corr |-> eye(n_tips)],
                               combinations_with_replacement(n_tips))
            IN IF st.err # "ok" THEN [err |-> st.err, inst |-> NoInstance]
               ELSE [err |-> "ok",
                     inst |-> [base EXCEPT !.tips = tips, !.bm_corr = st.bm_corr]]

(***************************************************************************)
(* The trees the constructor is run on.                                    *)
(***************************************************************************)
\* parent arrays of the ordered trees on n nodes, numbered in preorder
Shapes(n) ==
    {p \in [1..n -> 0..(n - 1)] :
        /\ p[1] = 0
        /\ \A k \in 2..n :
              /\ p[k] >= 1 /\ p[k] < k
              /\ p[k] \in ancestors([n |-> n, parent |-> p], k - 1)}

\* the trees of shape p: every edge with a length in lens, every leaf with a label
\* in lbls
TreesOfShape(n, p, lens, lbls) ==
    LET shape == [n |-> n, parent |-> p]
    IN {[n |-> n,
         parent |-> p,
         len |-> [k \in 1..n |-> IF k = 1 THEN 0 ELSE l[k]],
         label |-> [k \in 1..n |-> IF k \in leaf_nodes(shape) THEN b[k] ELSE 0]] :
            l \in [2..n -> lens], b \in [leaf_nodes(shape) -> lbls]}

\* t is a tree of at most MaxNodes nodes, branch lengths 0..MaxLen, leaves labelled
\* from 1..NumLabels (two leaves may bear the same label)
IsSmallTree(t) ==
    \E n \in 1..MaxNodes : \E p \in Shapes(n) :
        t \in TreesOfShape(n, p, 0..MaxLen, 1..NumLabels)

\* ((A:a,B:b):c,(C:d,D:e):f) with positive branch lengths
FourLeafTrees ==
    {[n |-> 7,
      parent |-> <<0, 1, 2, 2, 1, 5, 5>>,
      len |-> <<0, l[1], l[2], l[3], l[4], l[5], l[6]>>,
      label |-> <<0, 0, 1, 2, 0, 3, 4>>] : l \in [1..6 -> 1..(MaxLen + 1)]}

UniqueLabels(t) ==
    \A k1, k2 \in leaf_nodes(t) : t.label[k1] = t.label[k2] => k1 = k2

ContrastModes == {"all", "one", "any"}

NoArgs == [given |-> FALSE]
\* the frame of a forward call and its outcome, before any call: ref is the
\* tensor the local name mask refers to before tiling, new the tensor the call
\* allocated for it, pairs the passes of the tree branch's loop still to run
EmptyOut ==
    [status |-> "none", batch_size |-> 0, anchor_count |-> 0, contrast_count |-> 0,
     ref |-> "new", new |-> <<>>, pairs |-> <<>>,
     bmask |-> <<>>, tiled |-> <<>>, logits_mask |-> <<>>, mask |-> <<>>,
     loss |-> "none", written |-> {}, allocated |-> {}]

NoOut == EmptyOut

\* the outcome record of LabelSmoothingLoss.forward, before any call
LSEmptyOut == [status |-> "none", true_dist |-> <<>>, loss |-> [axis |-> 0, weights |-> <<>>]]

(***************************************************************************)
(* Specification of the constructor: a tree is given, __init__ runs.       *)
(***************************************************************************)
InitTree ==
    /\ IsSmallTree(tree) \/ tree \in FourLeafTrees
    /\ self = NoInstance
    /\ init_err = "none"
    /\ args = NoArgs
    /\ out = NoOut
    /\ ls = NoInstance
    /\ ls_args = NoArgs
    /\ ls_out = LSEmptyOut

\* Tree.get(path=tree_path, schema="newick") on a tree in which two leaves bear one
\* label: depending on the library's version the reader builds the tree or raises
\* its own NewickReaderDuplicateTaxonError.
Tree_get(t) ==
    IF UniqueLabels(t) THEN {"ok"} ELSE {"ok", "NewickReaderDuplicateTaxonError"}

Construct ==
    /\ init_err = "none"
    /\ \E read \in Tree_get(tree) :
         IF read # "ok"
         THEN /\ self' = NoInstance
              /\ init_err' = read
         ELSE LET r == SupConLoss_init(DefaultTemperature, "all", DefaultTemperature, tree)
              IN /\ self' = r.inst
                 /\ init_err' = r.err
    /\ UNCHANGED <<tree, args, out, ls, ls_args, ls_out>>

NextTree == Construct

SpecTree == InitTree /\ [][NextTree]_vars


(***************************************************************************)
(* SupConLoss.forward.                                                     *)
(*                                                                         *)
(* features is modelled by its shape (the embedding values decide no       *)
(* branch and no mask entry).  labels is [given, data], data a sequence of *)
(* class indices; mask is [given, is_float, data], data a matrix.          *)
(*                                                                         *)
(* Tensors live in a store, a function from references to contents:        *)
(* "bm_corr" is self.bm_corr, "arg_mask" the caller's mask, "new" the      *)
(* tensor the call allocates for its local name mask before tiling.  An    *)
(* in-place store mask[i, j] = v writes the tensor the local name refers   *)
(* to.                                                                     *)
(***************************************************************************)
Refs == {"bm_corr", "arg_mask", "new"}

\* len(features.shape)
Rank(a) == Len(a.features.shape)

RECURSIVE Prod(_)
Prod(sq) == IF sq = <<>> THEN 1 ELSE Head(sq) * Prod(Tail(sq))

\* features.view(features.shape[0], features.shape[1], -1) when the rank exceeds 3
ViewFeatures(shape) ==
    IF Len(shape) > 3
    THEN <<shape[1], shape[2], Prod(SubSeq(shape, 3, Len(shape)))>>
    ELSE shape

\* the if/elif chain that picks the mask derivation; the tree branch tested
\* before the conflict
MaskBranchTreeFirst(inst, a) ==
    IF a.labels.given /\ inst.has_tree THEN "tree"
    ELSE IF a.labels.given /\ a.mask.given THEN "conflict"
    ELSE IF ~a.labels.given /\ ~a.mask.given THEN "identity"
    ELSE IF a.labels.given THEN "labels"
    ELSE "mask"

\* the if/elif chain that picks the mask derivation
MaskBranch(inst, a) ==
    IF a.labels.given /\ a.mask.given THEN "conflict"
    ELSE IF ~a.labels.given /\ ~a.mask.given THEN "identity"
    ELSE IF a.labels.given /\ inst.has_tree THEN "tree"
    ELSE IF a.labels.given THEN "labels"
    ELSE "mask"

\* the tree branch starting from the instance's own matrix instead of a new one
TreeMaskRefShared == "bm_corr"

\* mask = torch.eye(batch_size): the local name refers to a new tensor
TreeMaskRef == "new"

\* mask = mask.float().to(device): the same tensor when it already is float32 on
\* the device, a converted copy otherwise
FloatMaskRef(m) == IF m.is_float THEN "arg_mask" ELSE "new"

\* torch.eq(labels, labels.T).float()
LabelEq(labels) ==
    [i \in 1..Len(labels) |->
        [j \in 1..Len(labels) |-> IF labels[i] = labels[j] THEN One ELSE Zero]]

\* the tensors a call can reach: the instance's, the caller's, its own
Store(inst, a, fr) ==
    [r \in Refs |->
        CASE r = "bm_corr" -> inst.bm_corr
          [] r = "arg_mask" -> a.mask.data
          [] OTHER -> fr.new]

\* forward up to the mask derivation's loop: the rank check, the view, the branch
\* taken and the tensor the local name mask is bound to.  The frame returned has
\* status "looping" (the derivation goes on, with the loop's passes in pairs; none
\* outside the tree branch) or the error raised.
forward_begin(inst, a) ==
    IF Rank(a) < 3 THEN [EmptyOut EXCEPT !.status = "ShapeError"]
    ELSE
    LET shape == ViewFeatures(a.features.shape)
        batch_size == shape[1]
        fr == [EmptyOut EXCEPT !.status = "looping", !.batch_size = batch_size,
                               !.contrast_count = shape[2]]
        branch == MaskBranch(inst, a)
    IN CASE branch = "conflict" -> [fr EXCEPT !.status = "ArgumentConflictError"]
         [] branch = "identity" ->
              [fr EXCEPT !.new = eye(batch_size), !.allocated = {"new"}]
         [] branch = "tree" ->
              LET ref == TreeMaskRef
                  fr1 == IF ref = "new"
                         THEN [fr EXCEPT !.new = eye(batch_size), !.allocated = {"new"}]
                         ELSE fr
              IN [fr1 EXCEPT !.ref = ref,
                             !.pairs = combinations_with_replacement(batch_size)]
         [] branch = "labels" ->
              IF Len(a.labels.data) # batch_size
              THEN [fr EXCEPT !.status = "ShapeError"]
              ELSE [fr EXCEPT !.new = LabelEq(a.labels.data), !.allocated = {"new"}]
         [] OTHER ->
              LET ref == FloatMaskRef(a.mask)
              IN IF ref = "new"
                 THEN [fr EXCEPT !.new = a.mask.data, !.allocated = {"new"}]
                 ELSE [fr EXCEPT !.ref = ref]

\* One pass of the tree branch's loop, for the pair (i, j) at the head of pairs;
\* st = [fr, store].  The pass reads self.bm_corr and stores into the tensor the
\* local name mask refers to.
forward_loop_step(a, st) ==
    LET i == Head(st.fr.pairs)[1]
        j == Head(st.fr.pairs)[2]
        labels == a.labels.data
        rest == [st EXCEPT !.fr.pairs = Tail(@)]
    IN IF i = j THEN rest
       ELSE IF i > Len(labels) \/ j > Len(labels)
       THEN [st EXCEPT !.fr.status = "IndexError"]
       ELSE LET tip1 == labels[i]
                tip2 == labels[j]
                t12_corr == st.store["bm_corr"][tip1][tip2]
                ref == st.fr.ref
            IN [rest EXCEPT !.store[ref] = SetPair(st.store[ref], i, j, t12_corr),
                            !.fr.written = @ \cup {ref}]

RECURSIVE forward_loop(_, _)
\* the whole loop: the passes in order, stopping at the first raise
forward_loop(a, st) ==
    IF st.fr.pairs = <<>> \/ st.fr.status # "looping" THEN st
    ELSE forward_loop(a, forward_loop_step(a, st))

\* m.repeat(anchor_count, contrast_count) of a bsz x bsz matrix m
repeat(m, bsz, anchor_count, contrast_count) ==
    [r \in 1..(bsz * anchor_count) |->
        [c \in 1..(bsz * contrast_count) |->
            m[((r - 1) % bsz) + 1][((c - 1) % bsz) + 1]]]

\* the scatter index wrapped to the batch: row r zeroes the column of view 0
ScatterIndexFirstView(r, bsz) == ((r - 1) % bsz) + 1

\* torch.arange(batch_size * anchor_count).view(-1, 1): row r names column r
ScatterIndex(r, bsz) == r

\* torch.scatter(torch.ones_like(mask), 1, index, 0)
LogitsMask(bsz, anchor_count, contrast_count) ==
    [r \in 1..(bsz * anchor_count) |->
        [c \in 1..(bsz * contrast_count) |->
            IF c = ScatterIndex(r, bsz) THEN Zero ELSE One]]

\* mask * logits_mask
Mul(m1, m2) ==
    [r \in DOMAIN m1 |-> [c \in DOMAIN m1[r] |-> Times(m1[r][c], m2[r][c])]]

\* m.sum(1) of a matrix of non-negative entries is 0 exactly when the row is all 0
RowSumIsZero(m, r) == \A c \in DOMAIN m[r] : ~IsPos(m[r][c])

\* mean_log_prob_pos = (mask * log_prob).sum(1) / mask.sum(1), then the mean over
\* the anchors: a row whose mask sums to 0 is 0/0, and the mean is then nan
LossValue(pos_mask) ==
    IF \E r \in DOMAIN pos_mask : RowSumIsZero(pos_mask, r) THEN "nan" ELSE "finite"

\* forward from the end of the mask derivation: the contrast mode, the tiling,
\* the self-comparison mask and the loss, on the mask tensor bmask
forward_end(inst, fr, bmask) ==
    LET batch_size == fr.batch_size
        contrast_count == fr.contrast_count
        fr1 == [fr EXCEPT !.bmask = bmask]
    IN IF inst.contrast_mode \notin {"one", "all"}
       THEN [fr1 EXCEPT !.status = "UnknownModeError"]
       ELSE
       LET anchor_count == IF inst.contrast_mode = "one" THEN 1 ELSE contrast_count
           tiled == repeat(bmask, batch_size, anchor_count, contrast_count)
           logits_mask == LogitsMask(batch_size, anchor_count, contrast_count)
           mask == Mul(tiled, logits_mask)
       IN [fr1 EXCEPT !.status = "ok",
                      !.anchor_count = anchor_count,
                      !.tiled = tiled,
                      !.logits_mask = logits_mask,
                      !.mask = mask,
                      !.loss = LossValue(mask)]

\* forward(features, labels, mask) on instance inst, whole: [fr, store], the
\* outcome and the tensors as the call leaves them
forward(inst, a) ==
    LET fr0 == forward_begin(inst, a)
        st == forward_loop(a, [fr |-> fr0, store |-> Store(inst, a, fr0)])
    IN IF st.fr.status # "looping" THEN st
       ELSE [st EXCEPT !.fr = forward_end(inst, st.fr, st.store[st.fr.ref])]

(***************************************************************************)
(* The forward calls: the instances they run on and the caller's tensors.  *)
(***************************************************************************)
MaxB == 2          \* largest batch size
MaxV == 2          \* largest number of views
NumClasses == 2    \* class indices of the labels when no tree is configured
FeatDim == 2       \* size of each feature axis behind the first two

\* ((A:1,B:1):1,C:2) and ((A:1,B:2):1,C:1)
ThreeTipTrees ==
    {[n |-> 5,
      parent |-> <<0, 1, 2, 2, 1>>,
      len |-> <<0, 1, 1, b, 3 - b>>,
      label |-> <<0, 0, 1, 2, 3>>] : b \in {1, 2}}

ForwardTrees == {NoTree} \cup ThreeTipTrees

NoLabels == [given |-> FALSE, data |-> <<>>]
NoMask == [given |-> FALSE, is_float |-> TRUE, data |-> <<>>]

FeatureShapes(b, v) == {<<b, v>>, <<b, v, FeatDim>>, <<b, v, FeatDim, FeatDim>>}

\* label sequences of length B-1, B and B+1 over the instance's classes
LabelInputs(inst, b) ==
    LET classes == IF inst.has_tree THEN 1..Len(inst.tips) ELSE 1..NumClasses
    IN {[given |-> TRUE, data |-> d] :
           d \in UNION {[1..l -> classes] : l \in (b - 1)..(b + 1)}}

\* every B x B mask of zeros and ones, float32 or of another dtype
MaskInputs(b) ==
    {[given |-> TRUE, is_float |-> f, data |-> d] :
        f \in BOOLEAN, d \in [1..b -> [1..b -> {Zero, One}]]}

\* the masks passed together with labels
ConflictMasks(b) ==
    {[given |-> TRUE, is_float |-> TRUE, data |-> d] :
        d \in {eye(b), [i \in 1..b |-> [j \in 1..b |-> Zero]]}}

ForwardInputs(inst) ==
    UNION {
      {[given |-> TRUE, features |-> [shape |-> sh], labels |-> lm[1], mask |-> lm[2]] :
          sh \in FeatureShapes(b, v),
          lm \in ({NoLabels} \X {NoMask})
                   \cup (LabelInputs(inst, b) \X {NoMask})
                   \cup ({NoLabels} \X MaskInputs(b))
                   \cup (LabelInputs(inst, b) \X ConflictMasks(b))}
      : b \in 1..MaxB, v \in 1..MaxV}

(***************************************************************************)
(* Specification of forward: an instance is constructed; the caller makes  *)
(* its tensors (Call), forward runs on them (Forward) and the caller takes  *)
(* the outcome (Return), again and again.                                  *)
(***************************************************************************)
Init ==
    /\ tree \in ForwardTrees
    /\ \E mode \in ContrastModes :
         LET r == SupConLoss_init(DefaultTemperature, mode, DefaultTemperature, tree)
         IN /\ r.err = "ok"
            /\ self = r.inst
            /\ init_err = r.err
    /\ args = NoArgs
    /\ out = NoOut
    /\ ls = NoInstance
    /\ ls_args = NoArgs
    /\ ls_out = LSEmptyOut

Call ==
    /\ out.status = "none"
    /\ args' \in ForwardInputs(self)
    /\ out' = [EmptyOut EXCEPT !.status = "pending"]
    /\ UNCHANGED <<tree, self, init_err, ls, ls_args, ls_out>>

Forward ==
    /\ out.status = "pending"
    /\ LET r == forward(self, args)
       IN /\ out' = [r.fr EXCEPT !.new = r.store["new"]]
          /\ self' = [self EXCEPT !.bm_corr = r.store["bm_corr"]]
          /\ args' = [args EXCEPT !.mask.data = r.store["arg_mask"]]
    /\ UNCHANGED <<tree, init_err, ls, ls_args, ls_out>>

\* the caller takes the result (or the error) and drops its tensors
Return ==
    /\ out.status \notin {"none", "pending", "looping"}
    /\ args' = NoArgs
    /\ out' = NoOut
    /\ UNCHANGED <<tree, self, init_err, ls, ls_args, ls_out>>

Next == Call \/ Forward \/ Return

Spec == Init /\ [][Next]_vars

(***************************************************************************)
(* Properties of the constructor, stated for SpecTree.                     *)
(***************************************************************************)
Constructed == init_err = "ok"
Ran == init_err # "none"

n_tips == Len(self.tips)

\* the leaf of a uniquely labelled tree that bears label l
LeafOf(t, l) == CHOOSE k \in leaf_nodes(t) : t.label[k] = l

bm_corr_symmetric == \A i, j \in 1..n_tips : self.bm_corr[i][j] = self.bm_corr[j][i]
bm_corr_unit_diagonal == \A i \in 1..n_tips : self.bm_corr[i][i] = One
bm_corr_in_range ==
    \A i, j \in 1..n_tips : i # j => LeqOne(self.bm_corr[i][j]) /\ self.bm_corr[i][j][1] >= 0

\* C1: for every rooted tree with uniquely labelled leaves and non-negative branch
\* lengths, construction completes, and bm_corr is symmetric, has 1.0 on its
\* diagonal and has every off-diagonal entry in [0, 1].
C1_ValidTreeYieldsCorrelationMatrix ==
    (Ran /\ UniqueLabels(tree)) =>
        /\ Constructed
        /\ bm_corr_symmetric
        /\ bm_corr_unit_diagonal
        /\ bm_corr_in_range

\* C2: in a constructed instance, for every two distinct tips i, j, bm_corr[i][j] is
\* 0.0 when their most recent common ancestor is the root, and otherwise
\* mrca_depth / sqrt(tip_i_depth * tip_j_depth); for the four-leaf tree
\* ((A,B),(C,D)) with positive branch lengths, construction completes with
\* bm_corr[A,B] > 0, bm_corr[C,D] > 0 and the four cross pairs 0.
C2_CorrelationOfEveryPair ==
    /\ (Constructed /\ UniqueLabels(tree)) =>
          \A i, j \in 1..n_tips : i # j =>
              LET a == LeafOf(tree, self.tips[i])
                  b == LeafOf(tree, self.tips[j])
                  common == ancestors(tree, a) \cap ancestors(tree, b)
              IN IF common = {1}
                 THEN self.bm_corr[i][j] = Zero
                 ELSE \E m \in common :
                        /\ \A c \in common : c <= m
                        /\ LET d == distance_from_root(tree, m)
                               da == distance_from_root(tree, a)
                               db == distance_from_root(tree, b)
                           IN /\ self.bm_corr[i][j][1] * da * db = self.bm_corr[i][j][2] * d * d
                              /\ GCD(self.bm_corr[i][j][1], self.bm_corr[i][j][2]) = 1
    /\ (Ran /\ tree \in FourLeafTrees) =>
          /\ Constructed
          /\ self.tips = <<1, 2, 3, 4>>
          /\ IsPos(self.bm_corr[1][2]) /\ IsPos(self.bm_corr[2][1])
          /\ IsPos(self.bm_corr[3][4]) /\ IsPos(self.bm_corr[4][3])
          /\ \A i \in {1, 2}, j \in {3, 4} :
                self.bm_corr[i][j] = Zero /\ self.bm_corr[j][i] = Zero

\* a four-leaf tree and a three-tip tree with unequal tip depths, both constructed
C2_Witness ==
    /\ Constructed
    /\ UniqueLabels(tree)
    /\ n_tips >= 2
    /\ \E i, j \in 1..n_tips :
          /\ i # j
          /\ IsPos(self.bm_corr[i][j])
          /\ self.bm_corr[i][j] # One
          /\ \E k \in 1..n_tips : self.bm_corr[i][k] = Zero

HasDuplicateLabel(t) == ~UniqueLabels(t)

\* C3: constructing from a tree in which two leaves bear the same label always
\* fails with DuplicateLabelError, and no (tips, bm_corr) pair is produced.
C3_DuplicateLabelAlwaysRejected ==
    (Ran /\ HasDuplicateLabel(tree)) =>
        /\ init_err = "DuplicateLabelError"
        /\ self = NoInstance


(***************************************************************************)
(* Specification of concurrent forward calls: NumThreads threads call      *)
(* forward on one instance.  A thread's call runs in steps that other      *)
(* threads' steps interleave with: the start of the mask derivation        *)
(* (TBegin), each pass of the tree branch's loop (TLoopStep), and the rest *)
(* (TEnd).  args[t] holds the tensors of thread t's caller, out[t] the     *)
(* frame of its call.                                                      *)
(***************************************************************************)
NumThreads == 2

Threads == 1..NumThreads

\* two samples in two views; labels with a soft correlation, with correlation 0,
\* equal, and one label short (the loop raises); a float32 identity mask, alone
\* and with labels (the call raises); neither
ThreadInputs ==
    LET labelled(d) == [given |-> TRUE, data |-> d]
        identity == [given |-> TRUE, is_float |-> TRUE, data |-> eye(2)]
    IN {[given |-> TRUE, features |-> [shape |-> <<2, 2, FeatDim>>], labels |-> lm[1],
         mask |-> lm[2]] :
           lm \in {<<labelled(<<1, 2>>), NoMask>>,
                   <<labelled(<<1, 3>>), NoMask>>,
                   <<labelled(<<2, 2>>), NoMask>>,
                   <<labelled(<<1>>), NoMask>>,
                   <<NoLabels, identity>>,
                   <<labelled(<<1, 2>>), identity>>,
                   <<NoLabels, NoMask>>}}

InitThreads ==
    /\ tree \in ThreeTipTrees
    /\ \E mode \in ContrastModes :
         LET r == SupConLoss_init(DefaultTemperature, mode, DefaultTemperature, tree)
         IN /\ r.err = "ok"
            /\ self = r.inst
            /\ init_err = r.err
    /\ args = [t \in Threads |-> NoArgs]
    /\ out = [t \in Threads |-> NoOut]
    /\ ls = NoInstance
    /\ ls_args = NoArgs
    /\ ls_out = LSEmptyOut

\* what a step of thread t's call leaves: the frame and the tensors it reaches
Leave(t, fr, store) ==
    /\ out' = [out EXCEPT ![t] = [fr EXCEPT !.new = store["new"]]]
    /\ self' = [self EXCEPT !.bm_corr = store["bm_corr"]]
    /\ args' = [args EXCEPT ![t].mask.data = store["arg_mask"]]
    /\ UNCHANGED <<tree, init_err, ls, ls_args, ls_out>>

TCall(t) ==
    /\ out[t].status = "none"
    /\ \E a \in ThreadInputs : args' = [args EXCEPT ![t] = a]
    /\ out' = [out EXCEPT ![t] = [EmptyOut EXCEPT !.status = "pending"]]
    /\ UNCHANGED <<tree, self, init_err, ls, ls_args, ls_out>>

TBegin(t) ==
    /\ out[t].status = "pending"
    /\ LET fr == forward_begin(self, args[t])
       IN Leave(t, fr, Store(self, args[t], fr))

TLoopStep(t) ==
    /\ out[t].status = "looping"
    /\ out[t].pairs # <<>>
    /\ LET st == forward_loop_step(args[t],
                    [fr |-> out[t], store |-> Store(self, args[t], out[t])])
       IN Leave(t, st.fr, st.store)

TEnd(t) ==
    /\ out[t].status = "looping"
    /\ out[t].pairs = <<>>
    /\ LET store == Store(self, args[t], out[t])
       IN Leave(t, forward_end(self, out[t], store[out[t].ref]), store)

TReturn(t) ==
    /\ out[t].status \notin {"none", "pending", "looping"}
    /\ args' = [args EXCEPT ![t] = NoArgs]
    /\ out' = [out EXCEPT ![t] = NoOut]
    /\ UNCHANGED <<tree, self, init_err, ls, ls_args, ls_out>>

NextThreads ==
    \E t \in Threads : TCall(t) \/ TBegin(t) \/ TLoopStep(t) \/ TEnd(t) \/ TReturn(t)

SpecThreads == InitThreads /\ [][NextThreads]_vars

\* C8: over any sequence of forward calls on one instance, calls that raise and
\* calls interleaved from several threads included, no step changes the
\* instance's constructed state (temperature, base_temperature, contrast_mode,
\* tips, bm_corr), no step of a call changes its caller's features, labels or
\* mask, and every tensor a call has stored into is one that call allocated.
C8_ForwardChangesNothingItWasGiven ==
    [][/\ self' = self
       /\ \A t \in Threads :
             /\ (out[t].status \in {"pending", "looping"}) => args'[t] = args[t]
             /\ out'[t].written \subseteq out'[t].allocated]_vars

\* two calls in flight at once on different labels: thread 1 has stored into its
\* mask and has not tiled it yet, thread 2 has stored into its own and returned
C8_Witness ==
    /\ out[1].status = "looping"
    /\ out[1].written # {}
    /\ out[2].status = "ok"
    /\ out[2].written # {}
    /\ args[1].labels.data # args[2].labels.data
    /\ out[1].new # out[2].bmask

(***************************************************************************)
(* Properties of forward, stated for Spec.                                 *)
(***************************************************************************)
Done == out.status \notin {"none", "pending", "looping"}
Returned == out.status = "ok"

\* the batch size B and the number of views V of the call's features
B == args.features.shape[1]
V == args.features.shape[2]

\* the anchor row of sample s in view va, the contrast column of sample sc in view vc
Row(va, s) == (va - 1) * B + s
Col(vc, sc) == (vc - 1) * B + sc

\* C4 as stated: a call with both labels and mask fails with ArgumentConflictError,
\* for every features tensor, labels, mask, contrast_mode and tree.
C4_BothGivenAlwaysConflict ==
    (Done /\ args.labels.given /\ args.mask.given) =>
        out.status = "ArgumentConflictError"

\* C4 amended: a call with both labels and mask on features of rank >= 3 fails with
\* ArgumentConflictError, for every labels, mask, contrast_mode and tree (features
\* of rank < 3 fail with ShapeError first).
C4_BothGivenConflictWhenRankOk ==
    (Done /\ args.labels.given /\ args.mask.given) =>
        out.status = (IF Rank(args) >= 3 THEN "ArgumentConflictError" ELSE "ShapeError")

\* both given on a tree instance of unknown contrast mode; the conflict is raised
C4_Witness ==
    /\ Done
    /\ args.labels.given /\ args.mask.given
    /\ Rank(args) >= 3
    /\ self.has_tree
    /\ self.contrast_mode = "any"
    /\ Len(args.labels.data) = B
    /\ out.status = "ArgumentConflictError"

TreeLabelsCall ==
    /\ Done
    /\ Rank(args) >= 3
    /\ self.has_tree
    /\ args.labels.given /\ ~args.mask.given
    /\ Len(args.labels.data) = B

\* C5: with a tree configured and B valid tip indices as labels (no mask), the
\* B x B mask has 1 on the diagonal and mask[i][j] = mask[j][i] =
\* bm_corr[labels[i]][labels[j]] for i # j; two samples whose labels have
\* correlation 0.0 have 0 in every view block of the tiled mask, and two distinct
\* samples with the same label have mask value 1.
C5_TreeMaskIsCorrelationOfLabels ==
    TreeLabelsCall =>
        LET lab == args.labels.data
        IN /\ out.status \in {"ok", "UnknownModeError"}
           /\ Len(out.bmask) = B
           /\ \A i, j \in 1..B :
                 /\ Len(out.bmask[i]) = B
                 /\ i = j => out.bmask[i][j] = One
                 /\ i # j => /\ out.bmask[i][j] = self.bm_corr[lab[i]][lab[j]]
                             /\ out.bmask[j][i] = self.bm_corr[lab[i]][lab[j]]
                 /\ (i # j /\ lab[i] = lab[j]) => out.bmask[i][j] = One
                 /\ (Returned /\ i # j /\ self.bm_corr[lab[i]][lab[j]] = Zero) =>
                       \A va \in 1..out.anchor_count, vc \in 1..V :
                           /\ out.tiled[Row(va, i)][Col(vc, j)] = Zero
                           /\ out.mask[Row(va, i)][Col(vc, j)] = Zero

\* a returned call on a tree instance whose mask holds a soft value, strictly
\* between 0 and 1, for two samples of different labels
C5_Witness ==
    /\ TreeLabelsCall
    /\ Returned
    /\ V >= 2
    /\ \E i, j \in 1..B :
          /\ i # j
          /\ IsPos(out.bmask[i][j])
          /\ out.bmask[i][j] # One
          /\ out.mask[Row(1, i)][Col(2, j)] = out.bmask[i][j]

\* C6: a call with labels (no mask, features of rank >= 3) whose number of labels
\* differs from B fails with ShapeError, whether or not a tree is configured.
C6_LabelCountMismatchIsShapeError ==
    (Done /\ Rank(args) >= 3 /\ args.labels.given /\ ~args.mask.given
          /\ Len(args.labels.data) # B) =>
        out.status = "ShapeError"

\* C9: in both contrast modes the tiled mask is (B*anchor_count) x (B*V); the logits
\* mask has exactly one zero in every anchor row, at the column of the same sample
\* in the same view, the positive mask is zero there too, and every other column
\* keeps its tiled value, the value of the B x B mask for the two samples.
C9_OnlySelfColumnIsZeroed ==
    Returned =>
        /\ out.anchor_count = (IF self.contrast_mode = "one" THEN 1 ELSE V)
        /\ Len(out.logits_mask) = B * out.anchor_count
        /\ Len(out.mask) = B * out.anchor_count
        /\ \A va \in 1..out.anchor_count, s \in 1..B :
              LET r == Row(va, s)
              IN /\ Len(out.logits_mask[r]) = B * V
                 /\ Len(out.mask[r]) = B * V
                 /\ Cardinality({c \in 1..(B * V) : out.logits_mask[r][c] = Zero}) = 1
                 /\ \A vc \in 1..V, sc \in 1..B :
                       LET c == Col(vc, sc)
                       IN /\ out.tiled[r][c] = out.bmask[s][sc]
                          /\ IF vc = va /\ sc = s
                             THEN /\ out.logits_mask[r][c] = Zero
                                  /\ out.mask[r][c] = Zero
                             ELSE /\ out.logits_mask[r][c] = One
                                  /\ out.mask[r][c] = out.tiled[r][c]

\* mode all with two views and two samples: an anchor of the second view, whose
\* own sample keeps its 1 in the first view's block
C9_Witness ==
    /\ Returned
    /\ self.contrast_mode = "all"
    /\ B >= 2 /\ V >= 2
    /\ out.logits_mask[Row(2, 1)][Col(2, 1)] = Zero
    /\ out.mask[Row(2, 1)][Col(1, 1)] = One
    /\ IsPos(out.mask[Row(2, 1)][Col(2, 2)])

\* C10: every call that returns returns a well-defined loss: each anchor row's
\* sum(mask) after the self-comparison is zeroed is strictly positive.
C10_ReturnedLossIsDefined ==
    Returned =>
        /\ \A r \in 1..Len(out.mask) : ~RowSumIsZero(out.mask, r)
        /\ out.loss = "finite"


(***************************************************************************)
(* LabelSmoothingLoss.                                                     *)
(*                                                                         *)
(* smoothing is the fraction k / SmoothDen; every entry of true_dist is an *)
(* exact fraction <<p, q>> in lowest terms.  pred is modelled by its shape *)
(* [B, C]; the loss is modelled by what it is computed from: the axis of   *)
(* the log-softmax and of the sum, and the weights true_dist.              *)
(***************************************************************************)
MaxClasses == 3    \* largest number of classes, configured or columns of pred
SmoothDen == 4     \* smoothing ranges over 0/SmoothDen .. (SmoothDen-1)/SmoothDen

\* p/q in lowest terms, q > 0
Frac(p, q) == Reduce(p, q)
FracAdd(x, y) == Frac(x[1] * y[2] + y[1] * x[2], x[2] * y[2])
FracDiv(x, n) == Frac(x[1], x[2] * n)

RECURSIVE FracSum(_)
FracSum(sq) == IF sq = <<>> THEN Frac(0, 1) ELSE FracAdd(Head(sq), FracSum(Tail(sq)))

\* LabelSmoothingLoss(classes, smoothing, dim)
LabelSmoothingLoss_init(classes, smoothing, dim) ==
    [constructed |-> TRUE,
     confidence |-> Frac(smoothing[2] - smoothing[1], smoothing[2]),   \* 1.0 - smoothing
     smoothing |-> smoothing,
     cls |-> classes,
     dim |-> dim]

\* the fill value taken over all the classes: smoothing / classes
FillValueAllClasses(l) == FracDiv(l.smoothing, l.cls)

\* self.smoothing / (self.cls - 1), for cls > 1
FillValue(l) == FracDiv(l.smoothing, l.cls - 1)

\* true_dist = zeros_like(pred); fill_(smoothing / (cls - 1));
\* scatter_(1, target.unsqueeze(1), confidence)
TrueDist(l, nrows, ncols, target) ==
    [r \in 1..nrows |->
        [c \in 1..ncols |-> IF c = target[r] THEN l.confidence ELSE FillValue(l)]]

\* the axis a dim of -1, 0 or 1 names on a [B, C] tensor: 0 the batch, 1 the classes
Axis(dim) == dim % 2

\* forward(pred, target)
LS_forward(l, a) ==
    IF ~a.pred.is_tensor \/ ~a.target.is_tensor
    THEN [LSEmptyOut EXCEPT !.status = "TypeMismatchError"]
    ELSE IF a.pred.shape[1] # Len(a.target.data)
    THEN [LSEmptyOut EXCEPT !.status = "ShapeError"]
    ELSE IF l.cls - 1 = 0
    THEN [LSEmptyOut EXCEPT !.status = "ZeroDivisionError"]
    ELSE LET true_dist == TrueDist(l, a.pred.shape[1], a.pred.shape[2], a.target.data)
         IN [status |-> "ok",
             true_dist |-> true_dist,
             \* torch.mean(torch.sum(-true_dist * pred.log_softmax(dim), dim))
             loss |-> [axis |-> Axis(l.dim), weights |-> true_dist]]

\* nn.CrossEntropyLoss on a [B, C] pred: the mean over the rows of minus the
\* log-softmax over the classes at the target
CrossEntropy(nrows, ncols, target) ==
    [axis |-> 1,
     weights |-> [r \in 1..nrows |->
                    [c \in 1..ncols |-> IF c = target[r] THEN Frac(1, 1) ELSE Frac(0, 1)]]]

LSInputs ==
    {[given |-> TRUE,
      pred |-> [is_tensor |-> pt, shape |-> <<b, c>>],
      target |-> [is_tensor |-> tt, data |-> d]] :
        pt \in BOOLEAN, tt \in BOOLEAN, b \in 1..MaxB, c \in 2..MaxClasses,
        d \in UNION {[1..l -> 1..MaxClasses] : l \in 0..(MaxB + 1)}}

\* the calls made: target indexes columns of pred; its length is B-1, B or B+1
LSValidInput(a) ==
    /\ Len(a.target.data) \in (a.pred.shape[1] - 1)..(a.pred.shape[1] + 1)
    /\ \A k \in 1..Len(a.target.data) : a.target.data[k] <= a.pred.shape[2]

InitLS ==
    /\ tree = NoTree
    /\ self = NoInstance
    /\ init_err = "none"
    /\ args = NoArgs
    /\ out = NoOut
    /\ \E classes \in 1..MaxClasses, k \in 0..(SmoothDen - 1), dim \in {-1, 0, 1} :
          ls = LabelSmoothingLoss_init(classes, Frac(k, SmoothDen), dim)
    /\ ls_args = NoArgs
    /\ ls_out = LSEmptyOut

LSCall ==
    /\ ls_out.status = "none"
    /\ \E a \in LSInputs : LSValidInput(a) /\ ls_args' = a
    /\ ls_out' = [LSEmptyOut EXCEPT !.status = "pending"]
    /\ UNCHANGED <<tree, self, init_err, args, out, ls>>

LSForward ==
    /\ ls_out.status = "pending"
    /\ ls_out' = LS_forward(ls, ls_args)
    /\ UNCHANGED <<tree, self, init_err, args, out, ls, ls_args>>

LSReturn ==
    /\ ls_out.status \notin {"none", "pending"}
    /\ ls_args' = NoArgs
    /\ ls_out' = LSEmptyOut
    /\ UNCHANGED <<tree, self, init_err, args, out, ls>>

NextLS == LSCall \/ LSForward \/ LSReturn

SpecLS == InitLS /\ [][NextLS]_vars

(***************************************************************************)
(* Properties of LabelSmoothingLoss, stated for SpecLS.                    *)
(***************************************************************************)
LSReturned == ls_out.status = "ok"

LS_B == ls_args.pred.shape[1]
LS_C == ls_args.pred.shape[2]

RowSum(m, r) == FracSum(m[r])

\* C7 as stated: every row of the target distribution has confidence on the true
\* class and smoothing / (C - 1) on each other class, C the number of columns of
\* the prediction, so every row sums to 1; with smoothing = 0 the target is
\* one-hot and the loss is the standard cross-entropy.
C7_TargetSpreadsOverPredColumns ==
    LSReturned =>
        /\ \A r \in 1..LS_B :
              /\ \A c \in 1..LS_C :
                    ls_out.true_dist[r][c] =
                        IF c = ls_args.target.data[r] THEN ls.confidence
                        ELSE FracDiv(ls.smoothing, LS_C - 1)
              /\ RowSum(ls_out.true_dist, r) = Frac(1, 1)
        /\ ls.smoothing = Frac(0, 1) =>
              ls_out.loss = CrossEntropy(LS_B, LS_C, ls_args.target.data)

\* C7 amended: every row of the target distribution has confidence = 1 - smoothing
\* on the true class and smoothing / (classes - 1) on each other column, classes
\* the configured number of classes; every row sums to 1 when classes is the
\* number C of columns of the prediction; with smoothing = 0 the target is
\* one-hot, and the loss is the standard cross-entropy when dim names the class
\* axis.
C7_TargetSpreadsOverConfiguredClasses ==
    LSReturned =>
        /\ ls.confidence = Frac(ls.smoothing[2] - ls.smoothing[1], ls.smoothing[2])
        /\ \A r \in 1..LS_B :
              /\ \A c \in 1..LS_C :
                    ls_out.true_dist[r][c] =
                        IF c = ls_args.target.data[r] THEN ls.confidence
                        ELSE Frac(ls.smoothing[1], ls.smoothing[2] * (ls.cls - 1))
              /\ ls.cls = LS_C => RowSum(ls_out.true_dist, r) = Frac(1, 1)
        /\ ls.smoothing = Frac(0, 1) =>
              /\ ls_out.true_dist = CrossEntropy(LS_B, LS_C, ls_args.target.data).weights
              /\ ls.dim \in {-1, 1} =>
                    ls_out.loss = CrossEntropy(LS_B, LS_C, ls_args.target.data)

\* three classes configured and three columns, smoothing 1/2, two rows of
\* different targets
C7_Witness ==
    /\ LSReturned
    /\ ls.cls = 3 /\ LS_C = 3 /\ LS_B = 2
    /\ ls.smoothing = Frac(1, 2)
    /\ ls_args.target.data = <<1, 3>>
    /\ ls_out.true_dist[1] = <<Frac(1, 2), Frac(1, 4), Frac(1, 4)>>

=============================================================================
